---- MODULE Spec2Model ----
(***************************************************************************)
(* Crypto Sentiment Dashboard: the fetch -> fallback -> normalize pipeline *)
(* (services/lunarcrush.js getSentimentData, the /api/sentiment proxy GET  *)
(* handler, the Sample Dataset mockData) and the Home component's state    *)
(* machine (fetchCryptoData, the parameter-change effect, the mount        *)
(* effect).                                                                *)
(*                                                                         *)
(* JavaScript values are tagged records [t, v]: t is the type, v the       *)
(* payload.  An absent property of an object is a field that is not in the *)
(* DOMAIN of the function modelling the object; reading it gives Undefined.*)
(* Fractional numbers of the Sample Dataset are truncated to integers and  *)
(* its volume_24h and market_cap are given in thousands: no operation of   *)
(* the pipeline does arithmetic on them.                                   *)
(***************************************************************************)
EXTENDS Integers, Sequences, FiniteSets, TLC

\* ------------------------------------------------------------------------
\* Bounds of the model
\* ------------------------------------------------------------------------
\* longest record list the upstream gateway answers with
MaxLive == 2
\* number of fetches one run of the dashboard initiates
MaxFetches == 3
\* number of getSentimentData calls one run of the service harness makes
MaxCalls == 2
\* highest position index at which the normalization harness places a record
MaxIndex == 2

\* ------------------------------------------------------------------------
\* Program constants (constants.js, printed after the service in lunarcrush.js)
\* ------------------------------------------------------------------------
DEFAULT_LIMIT == 30
DEFAULT_SORT_DESCENDING == FALSE
AVAILABLE_DISPLAY_LIMITS == <<10, 20, 30, 50, 100>>

\* ------------------------------------------------------------------------
\* JavaScript values
\* ------------------------------------------------------------------------
Undefined == [t |-> "undefined", v |-> 0]
Null == [t |-> "null", v |-> 0]
Num(n) == [t |-> "number", v |-> n]
Bool(b) == [t |-> "boolean", v |-> IF b THEN 1 ELSE 0]

\* property read: obj.f
Get(obj, f) == IF f \in DOMAIN obj THEN obj[f] ELSE Undefined

Str(s) == [t |-> "string", v |-> s]

\* ToBoolean: undefined, null, NaN, 0, false and "" are falsy
Truthy(x) ==
    \/ x.t \in {"number", "boolean"} /\ x.v # 0
    \/ x.t = "string" /\ x.v # ""

\* x ?? d written as a test for undefined alone
Coalesce_UndefinedOnly(x, d) == IF x.t = "undefined" THEN d ELSE x

\* x ?? d
Coalesce(x, d) == IF x.t \in {"undefined", "null"} THEN d ELSE x

\* x || y written as x ?? y
OrElse_Nullish(x, y) == IF x.t \in {"undefined", "null"} THEN y ELSE x

\* x || y
OrElse(x, y) == IF Truthy(x) THEN x ELSE y

\* ------------------------------------------------------------------------
\* Decimal strings: Number.prototype.toString and parseInt on integers.
\* A string is a sequence of one-character strings.
\* ------------------------------------------------------------------------
DigitChar(d) == <<"0", "1", "2", "3", "4", "5", "6", "7", "8", "9">>[d + 1]

DigitOf(c) == CHOOSE d \in 0..9 : DigitChar(d) = c

IsDigit(c) == \E d \in 0..9 : DigitChar(d) = c

RECURSIVE NatToString(_)
NatToString(n) ==
    IF n < 10 THEN <<DigitChar(n)>>
    ELSE Append(NatToString(n \div 10), DigitChar(n % 10))

\* limit.toString()
NumberToString(n) == IF n < 0 THEN <<"-">> \o NatToString(0 - n) ELSE NatToString(n)

RECURSIVE ParseDigits(_, _)
ParseDigits(s, acc) ==
    IF s = <<>> \/ ~IsDigit(Head(s)) THEN acc
    ELSE ParseDigits(Tail(s), 10 * acc + DigitOf(Head(s)))

\* parseInt(s): NaN when no digit follows the optional sign
NaN == [t |-> "nan", v |-> 0]

ParseInt(s) ==
    LET neg == s # <<>> /\ Head(s) = "-"
        body == IF neg THEN Tail(s) ELSE s
    IN  IF body = <<>> \/ ~IsDigit(Head(body)) THEN NaN
        ELSE Num(IF neg THEN 0 - ParseDigits(body, 0) ELSE ParseDigits(body, 0))

\* ------------------------------------------------------------------------
\* The Sample Dataset (data/mockData.js) in its authored order
\* ------------------------------------------------------------------------
Coin(id, sym, price, vol, pc24, pc7, mcap, mcr, gs, alt, sent, rank) ==
    [id |-> Num(id), symbol |-> Str(sym),
     price |-> Num(price), volume_24h |-> Num(vol),
     percent_change_24h |-> Num(pc24), percent_change_7d |-> Num(pc7),
     market_cap |-> Num(mcap), market_cap_rank |-> Num(mcr),
     galaxy_score |-> Num(gs), alt_rank |-> Num(alt),
     sentiment |-> Num(sent), rank |-> Num(rank)]

mockDataAuthored ==
    [config |-> [generated |-> Num(1749002977)],
     data |-> << Coin(97, "ETP", 0, 56, 0, 0, 376, 3251, 47, 3857, 100, 1),
                 Coin(98, "XMX", 0, 52, 0, 0, 156, 3720, 30, 3231, 100, 2),
                 Coin(184, "META", 0, 199, 0, -1, 38158, 809, 16, 2678, 100, 3),
                 Coin(1, "BTC", 106859, 25803489, 1, 5, 2111578923, 1, 75, 1, 65, 4),
                 Coin(2, "ETH", 3582, 19452748, 1, 3, 429923728, 2, 72, 2, 62, 5) >>]

\* ------------------------------------------------------------------------
\* Array helpers
\* ------------------------------------------------------------------------
\* [...a].reverse()
Reverse(a) == [i \in 1..Len(a) |-> a[Len(a) + 1 - i]]

\* a.slice(0, end): a negative end counts from the end of the array
Slice0(a, end) ==
    LET e == IF end < 0 THEN (IF Len(a) + end < 0 THEN 0 ELSE Len(a) + end)
             ELSE (IF end > Len(a) THEN Len(a) ELSE end)
    IN  SubSeq(a, 1, e)

\* ------------------------------------------------------------------------
\* HTTP: what `await fetch(url)` and `await response.json()` can give
\* ------------------------------------------------------------------------
\* the object {} (also the shape of any success body without a `data` list)
EmptyObject == [f \in {} |-> Undefined]

\* a body that response.json() cannot parse
MalformedBody == [json |-> FALSE, value |-> EmptyObject]

JsonBody(obj) == [json |-> TRUE, value |-> obj]

\* fetch() rejected: the network is unreachable
NetworkFailure == [net |-> "rejected", status |-> 0, body |-> MalformedBody]

HttpResponse(status, body) == [net |-> "responded", status |-> status, body |-> body]

\* response.status === 200 in place of response.ok
ResponseOk_Only200(resp) == resp.status = 200

\* response.ok
ResponseOk(resp) == resp.status >= 200 /\ resp.status <= 299

\* the settled value of an async function
Resolved(x) == [settled |-> "resolved", value |-> x]

Rejected == [settled |-> "rejected", value |-> EmptyObject]

\* ------------------------------------------------------------------------
\* services/lunarcrush.js: getSentimentData
\* ------------------------------------------------------------------------
\* Steps 1-2 of the try block: the query string as its list of key/value pairs
BuildQuery(params) ==
    LET desc == Get(params, "desc")
        limit == Get(params, "limit")
        q1 == IF desc # Undefined
              THEN << [k |-> "desc", v |-> IF Truthy(desc) THEN <<"1">> ELSE <<"0">>] >>
              ELSE << >>
        q2 == IF limit # Undefined
              THEN << [k |-> "limit", v |-> NumberToString(limit.v)] >>
              ELSE << >>
    IN  q1 \o q2

\* the catch block without the usedMockData flag
MockFallback_Unflagged(params, mock) ==
    LET result2 == IF Truthy(Get(params, "desc"))
                   THEN [mock EXCEPT !.data = Reverse(mock.data)]
                   ELSE mock
    IN  IF Truthy(Get(params, "limit"))
        THEN [result2 EXCEPT !.data = Slice0(result2.data, params.limit.v)]
        ELSE result2

\* the catch block without Step 3
MockFallback_NoTruncate(params, mock) ==
    LET result1 == [f \in DOMAIN mock \cup {"usedMockData"} |->
                        IF f = "usedMockData" THEN Bool(TRUE) ELSE mock[f]]
    IN  IF Truthy(Get(params, "desc"))
        THEN [result1 EXCEPT !.data = Reverse(result1.data)]
        ELSE result1

\* the catch block with Step 3 before Step 2
MockFallback_TruncateFirst(params, mock) ==
    LET result1 == [f \in DOMAIN mock \cup {"usedMockData"} |->
                        IF f = "usedMockData" THEN Bool(TRUE) ELSE mock[f]]
        result2 == IF Truthy(Get(params, "limit"))
                   THEN [result1 EXCEPT !.data = Slice0(result1.data, params.limit.v)]
                   ELSE result1
    IN  IF Truthy(Get(params, "desc"))
        THEN [result2 EXCEPT !.data = Reverse(result2.data)]
        ELSE result2

\* the catch block: the Sample Dataset, flagged, reversed, truncated
MockFallback(params, mock) ==
    LET result1 == [f \in DOMAIN mock \cup {"usedMockData"} |->
                        IF f = "usedMockData" THEN Bool(TRUE) ELSE mock[f]]
        result2 == IF Truthy(Get(params, "desc"))
                   THEN [result1 EXCEPT !.data = Reverse(result1.data)]
                   ELSE result1
        result3 == IF Truthy(Get(params, "limit"))
                   THEN [result2 EXCEPT !.data = Slice0(result2.data, params.limit.v)]
                   ELSE result2
    IN  result3

\* `return response.json()` without the await: a parse failure leaves the try
\* block before it rejects
getSentimentData_NoAwait(params, resp, mock) ==
    IF resp.net = "rejected" THEN Resolved(MockFallback(params, mock))
    ELSE IF ~ResponseOk(resp) THEN Resolved(MockFallback(params, mock))
    ELSE IF ~resp.body.json THEN Rejected
    ELSE Resolved(resp.body.value)

\* without Step 4: the status of the response is not looked at
getSentimentData_NoStatusCheck(params, resp, mock) ==
    IF resp.net = "rejected" THEN Resolved(MockFallback(params, mock))
    ELSE IF ~resp.body.json THEN Resolved(MockFallback(params, mock))
    ELSE Resolved(resp.body.value)

\* the whole function, given how the request to the proxy turned out
getSentimentData(params, resp, mock) ==
    IF resp.net = "rejected" THEN Resolved(MockFallback(params, mock))
    ELSE IF ~ResponseOk(resp) THEN Resolved(MockFallback(params, mock))
    ELSE IF ~resp.body.json THEN Resolved(MockFallback(params, mock))
    ELSE Resolved(resp.body.value)

\* the catch block reversing result.data in place: result.data is the array
\* of mockData itself, the object spread copies only the outer object
MockDataAfterCall_InPlaceReverse(params, resp, mock) ==
    IF (resp.net = "rejected" \/ ~ResponseOk(resp) \/ ~resp.body.json)
         /\ Truthy(Get(params, "desc"))
    THEN [mock EXCEPT !.data = Reverse(mock.data)]
    ELSE mock

\* the module-level mockData object after one call: no statement of
\* getSentimentData assigns to it or to its data array
MockDataAfterCall(params, resp, mock) == mock

\* ------------------------------------------------------------------------
\* page.js fetchCryptoData, Step 3: normalization of one record
\* ------------------------------------------------------------------------
DefaultedFields ==
    {"sentiment", "galaxy_score", "percent_change_24h", "percent_change_7d",
     "volume_24h", "market_cap", "price"}

\* the map callback with ?? 0 also on the two rank fields
ProcessCoin_DefaultsRanks(coin, index) ==
    [f \in DOMAIN coin \cup DefaultedFields \cup {"rank", "market_cap_rank", "alt_rank"} |->
        IF f = "rank"
        THEN OrElse(Get(coin, "market_cap_rank"),
                    OrElse(Get(coin, "alt_rank"), Num(index + 1)))
        ELSE IF f \in DefaultedFields \cup {"market_cap_rank", "alt_rank"}
        THEN Coalesce(Get(coin, f), Num(0))
        ELSE coin[f]]

\* the map callback with `index` as the last link of the rank chain
ProcessCoin_ZeroBased(coin, index) ==
    [f \in DOMAIN coin \cup DefaultedFields \cup {"rank"} |->
        IF f = "rank"
        THEN OrElse(Get(coin, "market_cap_rank"),
                    OrElse(Get(coin, "alt_rank"), Num(index)))
        ELSE IF f \in DefaultedFields THEN Coalesce(Get(coin, f), Num(0))
        ELSE coin[f]]

ProcessCoin(coin, index) ==
    [f \in DOMAIN coin \cup DefaultedFields \cup {"rank"} |->
        IF f = "rank"
        THEN OrElse(Get(coin, "market_cap_rank"),
                    OrElse(Get(coin, "alt_rank"), Num(index + 1)))
        ELSE IF f \in DefaultedFields THEN Coalesce(Get(coin, f), Num(0))
        ELSE coin[f]]

\* the records mapped in reverse order
ProcessData_Reversed(list) ==
    [i \in 1..Len(list) |-> ProcessCoin(list[Len(list) + 1 - i], i - 1)]

\* result.data.map((coin, index) => ...): index counts from 0
ProcessData(list) == [i \in 1..Len(list) |-> ProcessCoin(list[i], i - 1)]

\* ------------------------------------------------------------------------
\* api/sentiment/route.js: the proxy GET handler
\* ------------------------------------------------------------------------
MissingKeyMessage == Str("Missing API key. Please set LUNARCRUSH_API_TOKEN in .env.local")

GenericMessage == Str("Failed to fetch data")

\* searchParams.get(k) is not null
HasParam(query, k) == \E i \in 1..Len(query) : query[i].k = k

\* searchParams.get(k) when it is not null: the first value under k
ParamValue(query, k) ==
    query[CHOOSE i \in 1..Len(query) :
            query[i].k = k /\ \A j \in 1..(i - 1) : query[j].k # k].v

\* Step 2 with a truthiness test: searchParams.get('desc') ? 1 : 0
ProxyDesc_Truthy(query) ==
    IF HasParam(query, "desc") /\ ParamValue(query, "desc") # << >> THEN 1 ELSE 0

\* Step 2: desc is 1 only for the exact string '1'
ProxyDesc(query) ==
    IF HasParam(query, "desc") /\ ParamValue(query, "desc") = <<"1">> THEN 1 ELSE 0


\* Step 2 without reading the limit parameter
ProxyLimit_AlwaysDefault(query) == Num(DEFAULT_LIMIT)

\* Step 2: the limit, or the default when the parameter is null or empty
ProxyLimit(query) ==
    IF HasParam(query, "limit") /\ ParamValue(query, "limit") # << >>
    THEN ParseInt(ParamValue(query, "limit"))
    ELSE Num(DEFAULT_LIMIT)

\* Step 3: the query of apiUrl
ApiUrl(query) ==
    LET limit == ProxyLimit(query)
    IN  << [k |-> "sort", v |-> <<"sentiment">>],
           [k |-> "limit", v |-> IF limit = NaN THEN <<"NaN">> ELSE NumberToString(limit.v)] >>
        \o (IF ProxyDesc(query) # 0 THEN << [k |-> "desc", v |-> <<"1">>] >> ELSE << >>)

ErrorResponse(message) == HttpResponse(500, JsonBody([error |-> message]))

\* the handler without Step 1: the upstream request is made with no token
GET_NoTokenCheck(query, token, up) ==
    [response |->
        IF up.net = "rejected" THEN ErrorResponse(GenericMessage)
        ELSE IF ~ResponseOk(up) THEN ErrorResponse(GenericMessage)
        ELSE IF ~up.body.json THEN ErrorResponse(GenericMessage)
        ELSE HttpResponse(200, JsonBody(up.body.value)),
     upstream |-> << ApiUrl(query) >>]

\* the handler without Step 5: the upstream's status and body are passed on
GET_StatusPassThrough(query, token, up) ==
    IF ~Truthy(token)
    THEN [response |-> ErrorResponse(MissingKeyMessage), upstream |-> << >>]
    ELSE [response |->
             IF up.net = "rejected" THEN ErrorResponse(GenericMessage)
             ELSE IF ~up.body.json THEN ErrorResponse(GenericMessage)
             ELSE HttpResponse(up.status, JsonBody(up.body.value)),
          upstream |-> << ApiUrl(query) >>]

\* The handler: `up` is how the upstream request turns out if it is made.
\* upstream is the list of upstream requests the handler issued.
GET(query, token, up) ==
    IF ~Truthy(token)
    THEN [response |-> ErrorResponse(MissingKeyMessage), upstream |-> << >>]
    ELSE [response |->
             IF up.net = "rejected" THEN ErrorResponse(GenericMessage)
             ELSE IF ~ResponseOk(up) THEN ErrorResponse(GenericMessage)
             ELSE IF ~up.body.json THEN ErrorResponse(GenericMessage)
             ELSE HttpResponse(200, JsonBody(up.body.value)),
          upstream |-> << ApiUrl(query) >>]

\* ------------------------------------------------------------------------
\* Inputs the environment supplies
\* ------------------------------------------------------------------------
\* records the gateway may list: one complete, one with gaps
LiveFull ==
    [id |-> Num(5), symbol |-> Str("SOL"), price |-> Num(150), volume_24h |-> Num(7),
     percent_change_24h |-> Num(-2), percent_change_7d |-> Num(4),
     market_cap |-> Num(70), market_cap_rank |-> Num(5), galaxy_score |-> Num(60),
     alt_rank |-> Num(9), sentiment |-> Num(80)]

LiveSparse ==
    [id |-> Num(74), symbol |-> Str("DOGE"), price |-> Null, volume_24h |-> Num(0),
     market_cap_rank |-> Num(0), galaxy_score |-> Null, sentiment |-> Num(55)]

LivePool == {LiveFull, LiveSparse}

LiveLists == UNION {[1..n -> LivePool] : n \in 0..MaxLive}

\* success bodies: { config, data: [...] } and bodies without a data list
ListBody(list) == JsonBody([config |-> [generated |-> Num(1)], data |-> list])

NoDataBodies == {JsonBody(EmptyObject), JsonBody([error |-> GenericMessage])}

Bodies == {ListBody(l) : l \in LiveLists} \cup NoDataBodies \cup {MalformedBody}

\* what the upstream gateway can answer to the proxy
UpstreamOutcomes ==
    {NetworkFailure} \cup {HttpResponse(st, b) : st \in {200, 401}, b \in Bodies}

\* what the proxy endpoint can answer to the browser, any proxy whatsoever
ProxyOutcomes ==
    {NetworkFailure} \cup {HttpResponse(st, b) : st \in {200, 201, 404, 500}, b \in Bodies}

\* params objects of the service harness
DescValues == {Undefined, Bool(FALSE), Bool(TRUE), Num(0), Num(1)}

LimitValues == {Undefined, Num(-2), Num(0), Num(1), Num(3), Num(5), Num(10)}

MakeParams(desc, limit) ==
    [f \in (IF desc = Undefined THEN {} ELSE {"desc"})
           \cup (IF limit = Undefined THEN {} ELSE {"limit"}) |->
        IF f = "desc" THEN desc ELSE limit]

ParamsObjects == {MakeParams(d, l) : d \in DescValues, l \in LimitValues}

\* ------------------------------------------------------------------------
\* State
\* ------------------------------------------------------------------------
VARIABLES
    \* module state
    mockData,        \* data/mockData.js: the exported object
    API_TOKEN,       \* constants.js: process.env.LUNARCRUSH_API_TOKEN
    \* Home component (page.js)
    data, loading, error, useMockData,     \* useState, lines 98-101
    isDescending, displayLimit,            \* useState, lines 106-107
    isRefreshing, fetchStatus,             \* useState, lines 110-111
    currentParams,                         \* useRef, lines 117-120
    mounted,         \* the mount effect has run
    effectPending,   \* the parameter-change effect is scheduled to run
    inflight,        \* fetchCryptoData calls suspended at `await getSentimentData`
    fetchCount,      \* number of fetchCryptoData calls so far
    settled,         \* the fetchCryptoData call that resumed last: its params,
                     \* the proxy's answer and the value of `result`
    applied,         \* the call whose records setData received last
    \* a caller of getSentimentData outside the component
    callPc, callParams, callResponse, callResult, callCount,
    callPrev,        \* the response and result of the call before, when the
                     \* current call repeats it with the same params
    \* a caller of the normalization step on one record list
    normPc, normRaw, normOut,
    \* one invocation of the proxy GET handler
    reqPc, reqQuery, reqUp, reqResponse, reqUpstream

moduleVars == <<mockData, API_TOKEN>>

homeVars ==
    <<data, loading, error, useMockData, isDescending, displayLimit, isRefreshing,
      fetchStatus, currentParams, mounted, effectPending, inflight, fetchCount,
      settled, applied>>

callVars == <<callPc, callParams, callResponse, callResult, callCount, callPrev>>

normVars == <<normPc, normRaw, normOut>>

proxyVars == <<reqPc, reqQuery, reqUp, reqResponse, reqUpstream>>

vars == <<moduleVars, homeVars, callVars, normVars, proxyVars>>

\* isDescending ? 1 : 0
DescFlag(b) == IF b THEN Num(1) ELSE Num(0)

NoCall == [id |-> 0, params |-> EmptyObject]

NoSettled ==
    [id |-> 0, params |-> EmptyObject, response |-> NetworkFailure, result |-> Rejected]

\* the component as constructed by its first render
HomeInit ==
    /\ data = << >>
    /\ loading = TRUE
    /\ error = Null
    /\ useMockData = FALSE
    /\ isDescending = DEFAULT_SORT_DESCENDING
    /\ displayLimit = DEFAULT_LIMIT
    /\ isRefreshing = FALSE
    /\ fetchStatus = "idle"
    /\ currentParams = [desc |-> DescFlag(DEFAULT_SORT_DESCENDING), limit |-> Num(DEFAULT_LIMIT)]
    /\ mounted = FALSE
    /\ effectPending = TRUE
    /\ inflight = {}
    /\ fetchCount = 0
    /\ settled = NoSettled
    /\ applied = NoCall

ModuleInit ==
    /\ mockData = mockDataAuthored
    /\ API_TOKEN \in {Undefined, Str("secret")}

NoPrev == [set |-> FALSE, response |-> NetworkFailure, result |-> Rejected]

CallIdle ==
    /\ callPc = "idle"
    /\ callParams = EmptyObject
    /\ callResponse = NetworkFailure
    /\ callResult = Rejected
    /\ callCount = 0
    /\ callPrev = NoPrev

NormIdle ==
    /\ normPc = "idle"
    /\ normRaw = << >>
    /\ normOut = << >>

ProxyIdle ==
    /\ reqPc = "idle"
    /\ reqQuery = << >>
    /\ reqUp = NetworkFailure
    /\ reqResponse = NetworkFailure
    /\ reqUpstream = << >>

\* ------------------------------------------------------------------------
\* Home component: fetchCryptoData
\* ------------------------------------------------------------------------
ErrorMessage == Str("Failed to load data. Check your API token in .env.local.")

\* the part before the await without setLoading(true) / setIsRefreshing(true)
StartFetch_NoLoading(params, forceRefresh) ==
    /\ fetchCount < MaxFetches
    /\ loading' = loading
    /\ isRefreshing' = isRefreshing
    /\ error' = Null
    /\ fetchStatus' = "fetching"
    /\ fetchCount' = fetchCount + 1
    /\ inflight' = inflight \cup {[id |-> fetchCount + 1, params |-> params]}

\* lines 138-151 and the call of line 158: the part that runs before the await
StartFetch(params, forceRefresh) ==
    /\ fetchCount < MaxFetches
    /\ loading' = (IF forceRefresh THEN loading ELSE TRUE)
    /\ isRefreshing' = (IF forceRefresh THEN TRUE ELSE isRefreshing)
    /\ error' = Null
    /\ fetchStatus' = "fetching"
    /\ fetchCount' = fetchCount + 1
    /\ inflight' = inflight \cup {[id |-> fetchCount + 1, params |-> params]}

\* lines 161-182: does the try block throw on this value of `result`
FetchThrows(result) ==
    \/ result.settled = "rejected"
    \/ "data" \notin DOMAIN result.value

\* Step 2 left out: the flag of the envelope is not looked at
UseMockDataAfter_Never(old, result) == old

\* the catch block also calling setUseMockData(false)
UseMockDataAfter_ClearedOnThrow(old, result) ==
    IF result.settled = "resolved" /\ Truthy(Get(result.value, "usedMockData"))
    THEN TRUE
    ELSE IF FetchThrows(result) THEN FALSE ELSE old

\* lines 161-164: setUseMockData(true) only when the envelope is flagged
UseMockDataAfter(old, result) ==
    IF result.settled = "resolved" /\ Truthy(Get(result.value, "usedMockData"))
    THEN TRUE ELSE old

\* line 188: does this call pass its records to setData when it resumes
\* (no check of the calls initiated after it is made)
AppliesResult(call, count) == TRUE

\* the call resumes, with a catch block that leaves loading and
\* isRefreshing as they are
ResumeFetch_CatchKeepsLoading(call, resp) ==
    LET result == getSentimentData(call.params, resp, mockData)
    IN  /\ inflight' = inflight \ {call}
        /\ mockData' = MockDataAfterCall(call.params, resp, mockData)
        /\ settled' = [id |-> call.id, params |-> call.params,
                       response |-> resp, result |-> result]
        /\ useMockData' = UseMockDataAfter(useMockData, result)
        /\ IF FetchThrows(result)
           THEN /\ error' = ErrorMessage
                /\ fetchStatus' = "error"
                /\ UNCHANGED <<data, applied, loading, isRefreshing>>
           ELSE /\ fetchStatus' = "complete"
                /\ loading' = FALSE
                /\ isRefreshing' = FALSE
                /\ data' = ProcessData(result.value.data)
                /\ applied' = call
                /\ UNCHANGED error

\* lines 158-199: the call resumes with the proxy's answer `resp`
ResumeFetch(call, resp) ==
    LET result == getSentimentData(call.params, resp, mockData)
    IN  /\ inflight' = inflight \ {call}
        /\ mockData' = MockDataAfterCall(call.params, resp, mockData)
        /\ settled' = [id |-> call.id, params |-> call.params,
                       response |-> resp, result |-> result]
        /\ useMockData' = UseMockDataAfter(useMockData, result)
        /\ loading' = FALSE
        /\ isRefreshing' = FALSE
        /\ IF FetchThrows(result)
           THEN /\ error' = ErrorMessage
                /\ fetchStatus' = "error"
                /\ UNCHANGED <<data, applied>>
           ELSE /\ fetchStatus' = "complete"
                /\ IF AppliesResult(call, fetchCount)
                   THEN /\ data' = ProcessData(result.value.data)
                        /\ applied' = call
                   ELSE UNCHANGED <<data, applied>>
                /\ UNCHANGED error

\* the dependency list without loading and isRefreshing
EffectDeps_SelectionOnly(desc, limit, load, refreshing) == <<desc, limit>>

\* the dependency list of the parameter-change effect, line 224
EffectDeps(desc, limit, load, refreshing) == <<desc, limit, load, refreshing>>

\* the comparison of line 213 alone: the limit is not compared
ParamsChanged_DescOnly(newParams, cur) == newParams.desc # cur.desc

\* the effect without the comparison against the last-applied parameters
ParamsChanged_Always(newParams, cur) == TRUE

\* lines 212-214
ParamsChanged(newParams, cur) ==
    newParams.desc # cur.desc \/ newParams.limit # cur.limit

\* ------------------------------------------------------------------------
\* Home component: effects and controls
\* ------------------------------------------------------------------------
\* the parameter-change effect without the write of line 218
ParamEffect_NoWrite ==
    /\ effectPending
    /\ LET newParams == [desc |-> DescFlag(isDescending), limit |-> Num(displayLimit)]
       IN  IF ParamsChanged(newParams, currentParams) /\ ~loading /\ ~isRefreshing
           THEN /\ StartFetch(newParams, FALSE)
                /\ effectPending' =
                      (EffectDeps(isDescending, displayLimit, loading', isRefreshing')
                         # EffectDeps(isDescending, displayLimit, loading, isRefreshing))
           ELSE /\ effectPending' = FALSE
                /\ UNCHANGED <<loading, isRefreshing, error,
                               fetchStatus, fetchCount, inflight>>
    /\ UNCHANGED <<data, useMockData, isDescending, displayLimit, mounted,
                   settled, applied, currentParams>>
    /\ UNCHANGED <<moduleVars, callVars, normVars, proxyVars>>

\* lines 205-224: the parameter-change effect
ParamEffect ==
    /\ effectPending
    /\ LET newParams == [desc |-> DescFlag(isDescending), limit |-> Num(displayLimit)]
       IN  IF ParamsChanged(newParams, currentParams) /\ ~loading /\ ~isRefreshing
           THEN /\ currentParams' = newParams
                /\ StartFetch(newParams, FALSE)
                /\ effectPending' =
                      (EffectDeps(isDescending, displayLimit, loading', isRefreshing')
                         # EffectDeps(isDescending, displayLimit, loading, isRefreshing))
           ELSE /\ effectPending' = FALSE
                /\ UNCHANGED <<currentParams, loading, isRefreshing, error,
                               fetchStatus, fetchCount, inflight>>
    /\ UNCHANGED <<data, useMockData, isDescending, displayLimit, mounted,
                   settled, applied>>
    /\ UNCHANGED <<moduleVars, callVars, normVars, proxyVars>>

\* lines 227-239: the mount effect, after the parameter-change effect of the
\* first render
MountEffect ==
    /\ ~mounted
    /\ ~effectPending
    /\ mounted' = TRUE
    /\ StartFetch([desc |-> DescFlag(isDescending), limit |-> Num(displayLimit)], FALSE)
    /\ effectPending' =
          (EffectDeps(isDescending, displayLimit, loading', isRefreshing')
             # EffectDeps(isDescending, displayLimit, loading, isRefreshing))
    /\ UNCHANGED <<data, useMockData, isDescending, displayLimit, currentParams,
                   settled, applied>>
    /\ UNCHANGED <<moduleVars, callVars, normVars, proxyVars>>


\* the header rendered on the error screen too
ControlsRendered_OnErrorScreen == mounted /\ ~loading

\* lines 263 and 292: the header with its controls is rendered only when the
\* loading screen and the error screen are not
ControlsRendered == mounted /\ ~loading /\ ~Truthy(error)

\* lines 420 and 429: the Ascending / Descending buttons
SelectSort(desc) ==
    /\ ControlsRendered
    /\ ~effectPending
    /\ fetchCount < MaxFetches
    /\ isDescending' = desc
    /\ effectPending' = (desc # isDescending)
    /\ UNCHANGED <<data, loading, error, useMockData, displayLimit, isRefreshing,
                   fetchStatus, currentParams, mounted, inflight, fetchCount,
                   settled, applied>>
    /\ UNCHANGED <<moduleVars, callVars, normVars, proxyVars>>

\* line 451: the limit dropdown
SelectLimit(limit) ==
    /\ ControlsRendered
    /\ ~effectPending
    /\ fetchCount < MaxFetches
    /\ displayLimit' = limit
    /\ effectPending' = (limit # displayLimit)
    /\ UNCHANGED <<data, loading, error, useMockData, isDescending, isRefreshing,
                   fetchStatus, currentParams, mounted, inflight, fetchCount,
                   settled, applied>>
    /\ UNCHANGED <<moduleVars, callVars, normVars, proxyVars>>

\* what the browser's fetch of /api/sentiment gives for this call: the
\* network fails, or the proxy handler answers
BrowserOutcomes(params) ==
    {NetworkFailure}
      \cup {GET(BuildQuery(params), API_TOKEN, up).response : up \in UpstreamOutcomes}

\* the await of line 158 completes and the rest of fetchCryptoData runs
Resolve(call, resp) ==
    /\ call \in inflight
    /\ ~effectPending
    /\ ResumeFetch(call, resp)
    /\ effectPending' =
          (EffectDeps(isDescending, displayLimit, loading', isRefreshing')
             # EffectDeps(isDescending, displayLimit, loading, isRefreshing))
    /\ UNCHANGED <<isDescending, displayLimit, currentParams, mounted, fetchCount,
                   API_TOKEN>>
    /\ UNCHANGED <<callVars, normVars, proxyVars>>

ResolveAny == \E call \in inflight : \E resp \in BrowserOutcomes(call.params) : Resolve(call, resp)

SelectSortAny == \E desc \in BOOLEAN : SelectSort(desc)

SelectLimitAny ==
    \E i \in 1..Len(AVAILABLE_DISPLAY_LIMITS) : SelectLimit(AVAILABLE_DISPLAY_LIMITS[i])

Init == ModuleInit /\ HomeInit /\ CallIdle /\ NormIdle /\ ProxyIdle

Next == ParamEffect \/ MountEffect \/ SelectSortAny \/ SelectLimitAny \/ ResolveAny

Spec == Init /\ [][Next]_vars

\* ------------------------------------------------------------------------
\* fetchCryptoData under any caller: the function itself does not look at
\* loading or at the calls already suspended (lines 135-151), so a caller
\* that does not go through the guard of line 216 (React's development-mode
\* second run of the mount effect is one) starts a call while another waits
\* ------------------------------------------------------------------------
OverlappingFetch(params) ==
    /\ mounted
    /\ ~effectPending
    /\ inflight # {}
    /\ StartFetch(params, FALSE)
    /\ effectPending' =
          (EffectDeps(isDescending, displayLimit, loading', isRefreshing')
             # EffectDeps(isDescending, displayLimit, loading, isRefreshing))
    /\ UNCHANGED <<data, useMockData, isDescending, displayLimit, currentParams,
                   mounted, settled, applied>>
    /\ UNCHANGED <<moduleVars, callVars, normVars, proxyVars>>

OverlappingFetchAny ==
    \E desc \in BOOLEAN : \E i \in 1..Len(AVAILABLE_DISPLAY_LIMITS) :
        OverlappingFetch([desc |-> DescFlag(desc), limit |-> Num(AVAILABLE_DISPLAY_LIMITS[i])])

NextOverlap ==
    ParamEffect \/ MountEffect \/ SelectSortAny \/ SelectLimitAny \/ ResolveAny
      \/ OverlappingFetchAny

SpecOverlap == Init /\ [][NextOverlap]_vars

\* ------------------------------------------------------------------------
\* getSentimentData under any caller, any params object and any proxy
\* ------------------------------------------------------------------------
\* line 39: the call is made and suspends at `await fetch(url)`
CallGetSentimentData(params) ==
    /\ callPc \in {"idle", "returned"}
    /\ callCount < MaxCalls
    /\ callPc' = "awaiting"
    /\ callParams' = params
    /\ callResponse' = NetworkFailure
    /\ callResult' = Rejected
    /\ callCount' = callCount + 1
    /\ callPrev' = NoPrev
    /\ UNCHANGED <<moduleVars, homeVars, normVars, proxyVars>>

\* the caller makes the call it has just made once more, with the same params
CallAgain ==
    /\ callPc = "returned"
    /\ callCount < MaxCalls
    /\ callPc' = "awaiting"
    /\ callPrev' = [set |-> TRUE, response |-> callResponse, result |-> callResult]
    /\ callResponse' = NetworkFailure
    /\ callResult' = Rejected
    /\ callCount' = callCount + 1
    /\ UNCHANGED <<callParams, moduleVars, homeVars, normVars, proxyVars>>

\* lines 61-101: the request settles and the call returns
CallSettles(resp) ==
    /\ callPc = "awaiting"
    /\ callPc' = "returned"
    /\ callResponse' = resp
    /\ callResult' = getSentimentData(callParams, resp, mockData)
    /\ mockData' = MockDataAfterCall(callParams, resp, mockData)
    /\ UNCHANGED <<callParams, callCount, callPrev, API_TOKEN>>
    /\ UNCHANGED <<homeVars, normVars, proxyVars>>

CallAny == \E params \in ParamsObjects : CallGetSentimentData(params)

CallSettlesAny == \E resp \in ProxyOutcomes : CallSettles(resp)

NextCall == CallAny \/ CallAgain \/ CallSettlesAny

SpecCall == Init /\ [][NextCall]_vars

\* ------------------------------------------------------------------------
\* The normalization step on any record at any position
\* ------------------------------------------------------------------------
RankFields == {"market_cap_rank", "alt_rank"}

RawFields == DefaultedFields \cup RankFields

\* the non-zero number a raw record carries in field f
PresentValue(f) ==
    IF f = "market_cap_rank" THEN Num(5) ELSE IF f = "alt_rank" THEN Num(9) ELSE Num(7)

\* one raw record per way of making each field absent, null, 0 or non-zero
RawRecord(shape) ==
    [f \in {g \in RawFields : shape[g] # "absent"} \cup {"symbol"} |->
        IF f = "symbol" THEN Str("RAW")
        ELSE IF shape[f] = "null" THEN Null
        ELSE IF shape[f] = "zero" THEN Num(0)
        ELSE PresentValue(f)]

RawShapes == [RawFields -> {"absent", "null", "zero", "present"}]

\* the record under study at position index, after `index` other records
RawList(shape, index) ==
    [i \in 1..(index + 1) |-> IF i <= index THEN LiveSparse ELSE RawRecord(shape)]

InitNorm ==
    /\ mockData = mockDataAuthored
    /\ API_TOKEN = Undefined
    /\ HomeInit /\ CallIdle /\ ProxyIdle
    /\ normPc = "raw"
    /\ normOut = << >>
    /\ \E shape \in RawShapes : \E index \in 0..MaxIndex : normRaw = RawList(shape, index)

\* lines 167-182 applied to the list
Normalize ==
    /\ normPc = "raw"
    /\ normPc' = "done"
    /\ normOut' = ProcessData(normRaw)
    /\ UNCHANGED <<normRaw, moduleVars, homeVars, callVars, proxyVars>>

NextNorm == Normalize

SpecNorm == InitNorm /\ [][NextNorm]_vars

\* ------------------------------------------------------------------------
\* The dashboard behind any proxy: the browser's fetch of /api/sentiment may
\* turn out in any way at all (any status, any body)
\* ------------------------------------------------------------------------
ResolveTransportAny ==
    \E call \in inflight : \E resp \in ProxyOutcomes : Resolve(call, resp)

NextTransport ==
    ParamEffect \/ MountEffect \/ SelectSortAny \/ SelectLimitAny \/ ResolveTransportAny

SpecTransport == Init /\ [][NextTransport]_vars

\* ------------------------------------------------------------------------
\* Vocabulary of the properties
\* ------------------------------------------------------------------------
\* the request failed at transport level: network, status, or unparseable body
TransportFailure(resp) ==
    resp.net = "rejected" \/ ~ResponseOk(resp) \/ ~resp.body.json

Flagged(envelope) == Get(envelope, "usedMockData") = Bool(TRUE)

Min(a, b) == IF a < b THEN a ELSE b

Symbols(list) == [i \in 1..Len(list) |-> list[i].symbol.v]

\* the first n elements of the Sample Dataset in authored or reversed order
SampleRecords(descending, n) ==
    [i \in 1..Min(n, Len(mockDataAuthored.data)) |->
        mockDataAuthored.data[IF descending THEN Len(mockDataAuthored.data) + 1 - i ELSE i]]

\* the sort and limit currently selected in the controls
Selection == [desc |-> DescFlag(isDescending), limit |-> Num(displayLimit)]

\* ------------------------------------------------------------------------
\* Properties
\* ------------------------------------------------------------------------

\* C1: whatever the params object and however the request to the proxy turns
\* out, a getSentimentData call that has returned has resolved, never
\* rejected, and its value is an object: the parsed body of the response or
\* the flagged fallback envelope with its record list.
C1_NeverRejects ==
    callPc = "returned" =>
        /\ callResult.settled = "resolved"
        /\ \/ callResult.value = callResponse.body.value
           \/ Flagged(callResult.value) /\ "data" \in DOMAIN callResult.value

\* a call returned after its response had a success status and a body that
\* is not JSON
C1_Witness ==
    /\ callPc = "returned"
    /\ callResponse.net = "responded" /\ ResponseOk(callResponse)
    /\ ~callResponse.body.json
    /\ callResult.settled = "resolved"

\* C2: when the request of the fetch that resumed last failed at transport
\* level (network, non-success status, unparseable success body), `result`
\* is the flagged Sample Dataset envelope and the dashboard is not in its
\* error state.
C2_TransportFailureFallsBack ==
    (settled.id # 0 /\ TransportFailure(settled.response)) =>
        /\ settled.result.settled = "resolved"
        /\ Flagged(settled.result.value)
        /\ settled.result.value.data
             = SampleRecords(Truthy(settled.params.desc), settled.params.limit.v)
        /\ error = Null
        /\ fetchStatus # "error"

\* a fetch resumed after a non-success status and the dashboard shows the
\* Sample Dataset
C2_Witness ==
    /\ settled.id # 0
    /\ settled.response.net = "responded" /\ ~ResponseOk(settled.response)
    /\ fetchStatus = "complete"
    /\ Symbols(data) = <<"ETP", "XMX", "META", "BTC", "ETH">>

\* C3: a returned envelope carries usedMockData = true exactly when the
\* fallback path produced it, in which case all its records are records of
\* the Sample Dataset; an envelope built from a successful response is the
\* response's body and is not flagged.
C3_FlagIffSample ==
    callPc = "returned" =>
        /\ Flagged(callResult.value) <=> TransportFailure(callResponse)
        /\ Flagged(callResult.value) =>
              \A i \in 1..Len(callResult.value.data) :
                  \E j \in 1..Len(mockDataAuthored.data) :
                      callResult.value.data[i] = mockDataAuthored.data[j]
        /\ ~Flagged(callResult.value) => callResult.value = callResponse.body.value

\* a fallback envelope has been returned, flagged, holding sample records
C3_Witness ==
    /\ callPc = "returned"
    /\ TransportFailure(callResponse)
    /\ Flagged(callResult.value)
    /\ Len(callResult.value.data) > 0

\* C4 as stated: for every limit > 0 and every outcome of the proxy call,
\* success with any list included, the envelope has at most limit records.
C4_AtMostLimitAlways ==
    (/\ callPc = "returned"
     /\ Truthy(Get(callParams, "limit")) /\ callParams.limit.v > 0
     /\ "data" \in DOMAIN callResult.value) =>
        Len(callResult.value.data) <= callParams.limit.v

\* C4 amended: for every limit > 0, a fallback envelope has at most limit
\* records; an envelope of a successful response holds the list of the
\* response's body unchanged, whatever its length.
C4_AtMostLimitOnFallback ==
    (/\ callPc = "returned"
     /\ Truthy(Get(callParams, "limit")) /\ callParams.limit.v > 0) =>
        /\ TransportFailure(callResponse) =>
              Len(callResult.value.data) <= callParams.limit.v
        /\ ~TransportFailure(callResponse) =>
              callResult.value = callResponse.body.value

\* the fallback path cut the five sample records down to limit = 3
C4_Witness ==
    /\ callPc = "returned"
    /\ TransportFailure(callResponse)
    /\ Get(callParams, "limit") = Num(3)
    /\ Len(callResult.value.data) = 3

\* C5: on the fallback path with a positive limit the records are the first
\* `limit` elements of the reversed Sample Dataset when desc is truthy and of
\* the authored order otherwise.
C5_ReverseThenTruncate ==
    (/\ callPc = "returned"
     /\ TransportFailure(callResponse)
     /\ Truthy(Get(callParams, "limit")) /\ callParams.limit.v > 0) =>
        callResult.value.data
          = SampleRecords(Truthy(Get(callParams, "desc")), callParams.limit.v)

\* descending with limit 3 gave ETH, BTC, META
C5_Witness ==
    /\ callPc = "returned"
    /\ TransportFailure(callResponse)
    /\ Get(callParams, "desc") = Bool(TRUE)
    /\ Get(callParams, "limit") = Num(3)
    /\ Symbols(callResult.value.data) = <<"ETH", "BTC", "META">>

\* C6: in every normalized record each of the seven defaulted fields is
\* present and is neither null nor undefined: it is 0 where the raw field was
\* absent or null, and the raw value (0 included) otherwise.
C6_DefaultedFields ==
    normPc = "done" =>
        /\ Len(normOut) = Len(normRaw)
        /\ \A i \in 1..Len(normRaw) : \A f \in DefaultedFields :
              /\ f \in DOMAIN normOut[i]
              /\ normOut[i][f] \notin {Null, Undefined}
              /\ IF f \in DOMAIN normRaw[i] /\ normRaw[i][f] # Null
                 THEN normOut[i][f] = normRaw[i][f]
                 ELSE normOut[i][f] = Num(0)

\* a record with a null, an absent, a zero and a non-zero field was normalized
C6_Witness ==
    /\ normPc = "done"
    /\ LET raw == normRaw[Len(normRaw)]
           out == normOut[Len(normOut)]
       IN  /\ "sentiment" \in DOMAIN raw /\ raw.sentiment = Null
           /\ "price" \notin DOMAIN raw
           /\ "volume_24h" \in DOMAIN raw /\ raw.volume_24h = Num(0)
           /\ "market_cap" \in DOMAIN raw /\ raw.market_cap = Num(7)
           /\ out.sentiment = Num(0) /\ out.price = Num(0)
           /\ out.volume_24h = Num(0) /\ out.market_cap = Num(7)

\* C7: the rank of the record at position index i is its market_cap_rank when
\* that is present and truthy, else its alt_rank when that is present and
\* truthy, else i + 1; 0 falls through; only the record's own fields and its
\* position enter.
C7_RankChain ==
    normPc = "done" =>
        \A i \in 1..Len(normRaw) :
            LET raw == normRaw[i]
                mcr == "market_cap_rank" \in DOMAIN raw
                          /\ raw.market_cap_rank \notin {Null, Num(0)}
                alt == "alt_rank" \in DOMAIN raw
                          /\ raw.alt_rank \notin {Null, Num(0)}
            IN  normOut[i].rank =
                    (IF mcr THEN raw.market_cap_rank
                     ELSE IF alt THEN raw.alt_rank
                     ELSE Num((i - 1) + 1))

\* market_cap_rank = 0 and alt_rank = 9 at index 2 gave rank 9
C7_Witness ==
    /\ normPc = "done"
    /\ Len(normRaw) = 3
    /\ "market_cap_rank" \in DOMAIN normRaw[3] /\ normRaw[3].market_cap_rank = Num(0)
    /\ "alt_rank" \in DOMAIN normRaw[3] /\ normRaw[3].alt_rank = Num(9)
    /\ normOut[3].rank = Num(9)

\* C8 as stated: after a success status with a JSON body that has no `data`
\* list, the dashboard is not in its error state, shows no records, and is
\* not marked as showing sample data.
C8_ShapeErrorGivesEmpty ==
    (/\ settled.id # 0
     /\ ~TransportFailure(settled.response)
     /\ "data" \notin DOMAIN settled.response.body.value) =>
        /\ error = Null
        /\ fetchStatus # "error"
        /\ data = << >>
        /\ ~useMockData

C10_NoRedundantFetch ==
    [][(mounted /\ Selection = currentParams) =>
          (fetchCount' = fetchCount /\ inflight' \subseteq inflight)]_vars

\* the effect has run after the second fetch completed, with the selection
\* equal to currentParams, and nothing is in flight
C10_Witness ==
    /\ mounted /\ ~effectPending /\ ~loading
    /\ fetchStatus = "complete"
    /\ isDescending /\ Selection = currentParams
    /\ fetchCount = 2
    /\ inflight = {}

\* C11 as stated: when no fetch is in flight and the call that resumed last
\* is the one whose records are displayed, useMockData (the mock-data notice)
\* is set exactly when that call's envelope was flagged as sample data.
C11_NoticeIffSynthetic ==
    (inflight = {} /\ applied.id # 0 /\ settled.id = applied.id) =>
        (useMockData <=> Flagged(settled.result.value))

\* ------------------------------------------------------------------------
\* The proxy GET handler under any request, any upstream answer
\* ------------------------------------------------------------------------
\* values of the desc and limit query parameters a client may send
DescStrings == {<<"0">>, <<"1">>, <<"t", "r", "u", "e">>}

LimitStrings ==
    {<< >>, <<"a", "b", "c">>} \cup {NumberToString(n) : n \in {-2, 0, 10, 20, 30, 50, 100}}

Queries ==
    {d \o l : d \in {<< >>} \cup {<< [k |-> "desc", v |-> x] >> : x \in DescStrings},
              l \in {<< >>} \cup {<< [k |-> "limit", v |-> x] >> : x \in LimitStrings}}

\* lines 91-145: one request is handled; `up` is the upstream's answer to the
\* request of Step 4 when that request is made.  The handler reads and
\* writes nothing that outlives the request, so a behaviour holds one request.
ProxyHandles(query, up) ==
    /\ reqPc = "idle"
    /\ reqPc' = "responded"
    /\ reqQuery' = query
    /\ reqUp' = up
    /\ reqResponse' = GET(query, API_TOKEN, up).response
    /\ reqUpstream' = GET(query, API_TOKEN, up).upstream
    /\ UNCHANGED <<moduleVars, homeVars, callVars, normVars>>

ProxyHandlesAny == \E query \in Queries : \E up \in UpstreamOutcomes : ProxyHandles(query, up)

NextProxy == ProxyHandlesAny

SpecProxy == Init /\ [][NextProxy]_vars

C14_MissingKeyNoUpstream ==
    reqPc = "responded" =>
        /\ ~Truthy(API_TOKEN) =>
              /\ reqUpstream = << >>
              /\ reqResponse = ErrorResponse(MissingKeyMessage)
        /\ (Truthy(API_TOKEN) /\ reqResponse.status # 200) =>
              reqResponse = ErrorResponse(GenericMessage)
        /\ MissingKeyMessage # GenericMessage

\* a request was answered with the missing-key message and no upstream request
C14_Witness ==
    /\ reqPc = "responded"
    /\ ~Truthy(API_TOKEN)
    /\ reqUpstream = << >>
    /\ reqResponse.body.value.error = MissingKeyMessage

\* C15: the handler always answers, in one of two shapes: status 200 with the
\* upstream's JSON body unchanged, only when the token is set and the upstream
\* answered a success status; or status 500 with a body { error: <string> },
\* when the token is missing, the upstream status is not a success, or the
\* upstream request or its parsing threw.
C15_TwoResponseShapes ==
    reqPc = "responded" =>
        /\ reqResponse.net = "responded"
        /\ reqResponse.body.json
        /\ \/ /\ reqResponse.status = 200
              /\ Truthy(API_TOKEN)
              /\ reqUp.net = "responded" /\ ResponseOk(reqUp) /\ reqUp.body.json
              /\ reqResponse.body.value = reqUp.body.value
           \/ /\ reqResponse.status = 500
              /\ DOMAIN reqResponse.body.value = {"error"}
              /\ reqResponse.body.value.error.t = "string"
              /\ \/ ~Truthy(API_TOKEN)
                 \/ reqUp.net = "rejected"
                 \/ ~ResponseOk(reqUp)
                 \/ ~reqUp.body.json

\* a two-record upstream list was passed through with status 200
C15_Witness ==
    /\ reqPc = "responded"
    /\ reqResponse.status = 200
    /\ "data" \in DOMAIN reqResponse.body.value
    /\ Symbols(reqResponse.body.value.data) = <<"SOL", "DOGE">>

\* C16: in the upstream request, desc=1 is present exactly when the request's
\* desc parameter is the string '1' (so never when desc is absent), and the
\* limit is 30 when the request has no limit parameter.
C16_ProxyDefaults ==
    (reqPc = "responded" /\ Truthy(API_TOKEN)) =>
        /\ Len(reqUpstream) = 1
        /\ HasParam(reqUpstream[1], "desc") <=>
              (HasParam(reqQuery, "desc") /\ ParamValue(reqQuery, "desc") = <<"1">>)
        /\ HasParam(reqUpstream[1], "desc") =>
              ParamValue(reqUpstream[1], "desc") = <<"1">>
        /\ ~HasParam(reqQuery, "limit") =>
              ParamValue(reqUpstream[1], "limit") = <<"3", "0">>

\* a request without parameters was forwarded as sort=sentiment&limit=30
C16_Witness ==
    /\ reqPc = "responded" /\ Truthy(API_TOKEN)
    /\ reqQuery = << >>
    /\ reqUpstream = << << [k |-> "sort", v |-> <<"sentiment">>],
                          [k |-> "limit", v |-> <<"3", "0">>] >> >>

\* C17 (as stated): every proxy response whose status is not 200, whatever
\* its body, makes getSentimentData return the synthetic envelope.
C17_Non200FallsBack ==
    (/\ callPc = "returned"
     /\ callResponse.net = "responded"
     /\ callResponse.status # 200) =>
        /\ Flagged(callResult.value)
        /\ callResult = Resolved(MockFallback(callParams, mockDataAuthored))

\* C17 (amended): every proxy response whose status is outside 200..299,
\* whatever its body, makes getSentimentData return the synthetic envelope;
\* a response with any status in 200..299 and a JSON body is treated as
\* success and its body is returned.
C17_NonOkFallsBack ==
    (callPc = "returned" /\ callResponse.net = "responded") =>
        /\ (callResponse.status < 200 \/ callResponse.status > 299) =>
              /\ Flagged(callResult.value)
              /\ callResult = Resolved(MockFallback(callParams, mockDataAuthored))
        /\ (/\ callResponse.status >= 200
            /\ callResponse.status <= 299
            /\ callResponse.body.json) =>
              callResult = Resolved(callResponse.body.value)

\* a 404 answer carrying a well-formed record list was replaced by the sample
C17_Witness ==
    /\ callPc = "returned"
    /\ callResponse.net = "responded"
    /\ callResponse.status = 404
    /\ callResponse.body.json
    /\ "data" \in DOMAIN callResponse.body.value
    /\ Symbols(callResponse.body.value.data) = <<"SOL", "DOGE">>
    /\ Flagged(callResult.value)

\* C19: a limit of 0 or below is sent unmodified in the request and, on the
\* fallback path, is the truncation bound: slice(0, limit) of the ordered
\* sample (no entries for 0, all but the last -limit entries for a negative).
C19_NonPositiveLimitUnclamped ==
    (/\ callPc = "returned"
     /\ "limit" \in DOMAIN callParams
     /\ callParams.limit.v <= 0) =>
        /\ ParamValue(BuildQuery(callParams), "limit")
             = NumberToString(callParams.limit.v)
        /\ TransportFailure(callResponse) =>
              callResult.value.data
                = Slice0(SampleRecords(Truthy(Get(callParams, "desc")),
                                       Len(mockDataAuthored.data)),
                         callParams.limit.v)

\* C18: with no API_TOKEN, every answer a dashboard fetch receives from the
\* proxy is the missing-key failure, getSentimentData returns the same
\* synthetic envelope as for any other failure, the dashboard shows the
\* normalized sample records in the selected order with the mock-data notice,
\* and it never enters its error state.
C18_NoCredentialShowsSample ==
    ~Truthy(API_TOKEN) =>
        /\ error = Null
        /\ fetchStatus # "error"
        /\ settled.id # 0 =>
              /\ settled.response.net = "responded" =>
                    settled.response = ErrorResponse(MissingKeyMessage)
              /\ settled.result
                   = Resolved(MockFallback(settled.params, mockDataAuthored))
              /\ applied.id = settled.id
              /\ data = ProcessData(SampleRecords(Truthy(settled.params.desc),
                                                  settled.params.limit.v))
              /\ useMockData

\* without a token, the second fetch (Descending selected) was answered with
\* the missing-key failure and the reversed sample is displayed
C18_Witness ==
    /\ ~Truthy(API_TOKEN)
    /\ settled.id = 2
    /\ settled.response = ErrorResponse(MissingKeyMessage)
    /\ isDescending
    /\ fetchStatus = "complete"
    /\ useMockData
    /\ Symbols(data) = <<"ETH", "BTC", "META", "XMX", "ETP">>

\* C20: normalization outputs one record per input record in the same order;
\* each output record has the input's fields plus rank and the seven
\* defaulted fields, and every other input field keeps its value.
C20_OrderAndFieldsPreserved ==
    normPc = "done" =>
        /\ Len(normOut) = Len(normRaw)
        /\ \A i \in 1..Len(normRaw) :
              /\ DOMAIN normOut[i]
                   = DOMAIN normRaw[i] \cup DefaultedFields \cup {"rank"}
              /\ \A f \in DOMAIN normRaw[i] \ (DefaultedFields \cup {"rank"}) :
                    normOut[i][f] = normRaw[i][f]

\* a three-record list whose last record differs from the others was normalized
C20_Witness ==
    /\ normPc = "done"
    /\ Len(normRaw) = 3
    /\ Symbols(normRaw) = <<"DOGE", "DOGE", "RAW">>
    /\ Symbols(normOut) = <<"DOGE", "DOGE", "RAW">>
    /\ normOut[1].id = Num(74)
    /\ "id" \notin DOMAIN normOut[3]

\* the fields the record definition lists
FieldsOfInterest ==
    {"id", "symbol", "name", "price", "volume_24h", "market_cap", "sentiment",
     "galaxy_score", "percent_change_24h", "percent_change_7d",
     "market_cap_rank", "alt_rank"}

\* C21 (as stated): every normalized record has every field of interest
\* present and numeric, with 0 wherever the raw value was absent or null.
C21_AllFieldsPresentNumeric ==
    normPc = "done" =>
        \A i \in 1..Len(normRaw) : \A f \in FieldsOfInterest :
            /\ f \in DOMAIN normOut[i]
            /\ normOut[i][f].t = "number"
            /\ (f \notin DOMAIN normRaw[i] \/ Get(normRaw[i], f) = Null) =>
                  normOut[i][f] = Num(0)

\* C21 (amended): the seven fields price, volume_24h, market_cap, sentiment,
\* galaxy_score, percent_change_24h and percent_change_7d are present in every
\* normalized record, 0 where the raw value was absent or null and the raw
\* value otherwise; id, symbol, name, market_cap_rank and alt_rank are copied
\* as they are: absent stays absent, null stays null.
C21_SevenDefaultedOthersCopied ==
    normPc = "done" =>
        \A i \in 1..Len(normRaw) : \A f \in FieldsOfInterest :
            IF f \in DefaultedFields
            THEN /\ f \in DOMAIN normOut[i]
                 /\ normOut[i][f] =
                       (IF f \in DOMAIN normRaw[i] /\ normRaw[i][f] # Null
                        THEN normRaw[i][f] ELSE Num(0))
            ELSE /\ f \in DOMAIN normOut[i] <=> f \in DOMAIN normRaw[i]
                 /\ f \in DOMAIN normRaw[i] => normOut[i][f] = normRaw[i][f]

\* a record without alt_rank, id and name, with a null market_cap_rank and
\* without price was normalized: only price became 0
C21_Witness ==
    /\ normPc = "done"
    /\ LET raw == normRaw[Len(normRaw)]
           out == normOut[Len(normOut)]
       IN  /\ "alt_rank" \notin DOMAIN raw /\ "alt_rank" \notin DOMAIN out
           /\ "id" \notin DOMAIN out /\ "name" \notin DOMAIN out
           /\ "market_cap_rank" \in DOMAIN raw /\ raw.market_cap_rank = Null
           /\ out.market_cap_rank = Null
           /\ "price" \notin DOMAIN raw /\ out.price = Num(0)
           /\ out.symbol = Str("RAW")

\* C29: the rank of every normalized record is truthy, also when the
\* record's market_cap_rank and alt_rank are both absent, null or 0.
C29_RankTruthy ==
    normPc = "done" =>
        \A i \in 1..Len(normOut) :
            /\ "rank" \in DOMAIN normOut[i]
            /\ Truthy(normOut[i].rank)
            /\ normOut[i].rank \notin {Num(0), Null, Undefined}

\* the first record of a list had market_cap_rank 0 and no alt_rank: rank 1
C29_Witness ==
    /\ normPc = "done"
    /\ Len(normRaw) = 1
    /\ "market_cap_rank" \in DOMAIN normRaw[1] /\ normRaw[1].market_cap_rank = Num(0)
    /\ "alt_rank" \notin DOMAIN normRaw[1]
    /\ normOut[1].rank = Num(1)

\* C22: for every fetch the dashboard has initiated, the request of
\* getSentimentData carries desc as '0' or '1' for the selected direction and
\* limit as the selected integer, and, when API_TOKEN is set, the upstream
\* request the proxy builds from it has that limit and has desc=1 exactly
\* when descending is selected.
C22_ParametersSurvive ==
    \A call \in inflight :
        LET query == BuildQuery(call.params)
        IN  /\ call.params = Selection
            /\ query = << [k |-> "desc", v |-> IF isDescending THEN <<"1">> ELSE <<"0">>],
                          [k |-> "limit", v |-> NumberToString(displayLimit)] >>
            /\ ParseInt(ParamValue(query, "limit")) = Num(displayLimit)
            /\ Truthy(API_TOKEN) =>
                  \A up \in UpstreamOutcomes :
                      LET upstream == GET(query, API_TOKEN, up).upstream
                      IN  /\ Len(upstream) = 1
                          /\ ParamValue(upstream[1], "limit") = NumberToString(displayLimit)
                          /\ HasParam(upstream[1], "desc") <=> isDescending
                          /\ HasParam(upstream[1], "desc") =>
                                ParamValue(upstream[1], "desc") = <<"1">>

\* with a token, the fetch for Descending and limit 100 is in flight
C22_Witness ==
    /\ Truthy(API_TOKEN)
    /\ isDescending /\ displayLimit = 100
    /\ inflight = {[id |-> 3, params |-> [desc |-> Num(1), limit |-> Num(100)]]}

\* the default parameters of the first render
DefaultParams ==
    [desc |-> DescFlag(DEFAULT_SORT_DESCENDING), limit |-> Num(DEFAULT_LIMIT)]

C24_CurrentParamsIsLastFetch ==
    /\ [](fetchCount > 0 =>
            /\ \A call \in inflight :
                  call.id = fetchCount => call.params = currentParams
            /\ settled.id = fetchCount => settled.params = currentParams
            /\ (settled.id = fetchCount \/ \E call \in inflight : call.id = fetchCount))
    /\ [][/\ currentParams' # currentParams => fetchCount' = fetchCount + 1
          /\ fetchCount' # fetchCount =>
                inflight' = inflight \cup {[id |-> fetchCount', params |-> currentParams']}
         ]_vars

\* the effect wrote Descending / limit 30 into currentParams and the fetch
\* with these parameters is in flight
C24_Witness ==
    /\ currentParams = [desc |-> Num(1), limit |-> Num(30)]
    /\ fetchCount = 2
    /\ inflight = {[id |-> 2, params |-> currentParams]}
    /\ loading

\* C25: at most one fetch is in flight at any time; while one is, loading or
\* isRefreshing is true and the sort and limit controls are not rendered.
C25_AtMostOneInFlight ==
    /\ Cardinality(inflight) <= 1
    /\ inflight # {} =>
          /\ loading \/ isRefreshing
          /\ ~ControlsRendered
          /\ \A call \in inflight : call.id = fetchCount

\* the third fetch of the session is the only one in flight
C25_Witness ==
    /\ fetchCount = 3
    /\ Cardinality(inflight) = 1
    /\ settled.id = 2
    /\ loading

\* ------------------------------------------------------------------------
\* The parameter-change effect under any caller of the state setters: the
\* guard of line 216 and the loading / isRefreshing entries of the dependency
\* list (line 224) are written for a sort or limit that changes while a
\* fetch is running; the rendered controls cannot do this (line 263), so the
\* setters are called here directly
\* ------------------------------------------------------------------------
SelectDuringFetch(desc, limit) ==
    /\ mounted
    /\ ~effectPending
    /\ inflight # {}
    /\ fetchCount < MaxFetches
    /\ isDescending' = desc
    /\ displayLimit' = limit
    /\ effectPending' =
          (EffectDeps(desc, limit, loading, isRefreshing)
             # EffectDeps(isDescending, displayLimit, loading, isRefreshing))
    /\ UNCHANGED <<data, loading, error, useMockData, isRefreshing,
                   fetchStatus, currentParams, mounted, inflight, fetchCount,
                   settled, applied>>
    /\ UNCHANGED <<moduleVars, callVars, normVars, proxyVars>>

SelectDuringFetchAny ==
    \E desc \in BOOLEAN : \E i \in 1..Len(AVAILABLE_DISPLAY_LIMITS) :
        SelectDuringFetch(desc, AVAILABLE_DISPLAY_LIMITS[i])

NextDeferred ==
    ParamEffect \/ MountEffect \/ SelectSortAny \/ SelectLimitAny \/ ResolveAny
      \/ SelectDuringFetchAny

SpecDeferred == Init /\ [][NextDeferred]_vars

\* C26: when no fetch is in flight, no effect is pending and the dashboard is
\* not in its error state, the displayed records are the normalization of the
\* envelope of a fetch made with the selected sort and limit, and
\* currentParams is that selection; a selection differing from currentParams
\* exists only while a fetch runs or an effect is pending, and the effect run
\* that follows loading and isRefreshing becoming false fetches it.
C26_DisplayedMatchesSelection ==
    /\ []((mounted /\ inflight = {} /\ ~effectPending /\ error = Null) =>
            /\ currentParams = Selection
            /\ settled.id = fetchCount
            /\ settled.params = Selection
            /\ applied.id = settled.id
            /\ data = ProcessData(settled.result.value.data))
    /\ []((mounted /\ ~effectPending /\ Selection # currentParams) =>
            (loading \/ isRefreshing))
    /\ [][/\ (Selection # currentParams /\ (loading \/ isRefreshing)
                /\ ~loading' /\ ~isRefreshing') => effectPending'
          /\ (mounted /\ effectPending /\ Selection # currentParams
                /\ ~loading /\ ~isRefreshing) =>
                /\ currentParams' = Selection
                /\ inflight' = {[id |-> fetchCount + 1, params |-> Selection]}
         ]_vars

\* Descending / limit 10 was selected while the mount fetch was running; it
\* was fetched after that fetch resolved and its records are displayed
C26_Witness ==
    /\ mounted /\ inflight = {} /\ ~effectPending /\ error = Null
    /\ fetchCount = 2
    /\ isDescending /\ displayLimit = 10
    /\ settled.params = [desc |-> Num(1), limit |-> Num(10)]
    /\ settled.id = 2
    /\ Len(data) > 0

\* C27: once error is set, no control acts any more: the selection, error,
\* fetchStatus ('error') and the displayed records keep their values and no
\* fetch is initiated in any later step.
C27_ErrorAbsorbing ==
    /\ [](Truthy(error) =>
            /\ fetchStatus = "error"
            /\ ~loading /\ ~isRefreshing
            /\ inflight = {}
            /\ Selection = currentParams)
    /\ [][Truthy(error) =>
            /\ error' = error
            /\ fetchStatus' = fetchStatus
            /\ fetchCount' = fetchCount
            /\ inflight' = inflight
            /\ Selection' = Selection
            /\ data' = data
         ]_vars

\* the second fetch ended in the catch branch and the effect that followed
\* initiated nothing
C27_Witness ==
    /\ error = ErrorMessage
    /\ fetchStatus = "error"
    /\ settled.id = 2 /\ fetchCount = 2
    /\ ~effectPending
    /\ ~loading

\* C28: a step in which a fetch ends in the catch branch leaves data,
\* useMockData, currentParams and the selection as they were; error,
\* loading, isRefreshing and fetchStatus are what it sets.
C28_ErrorBranchFrame ==
    [][(fetchStatus # "error" /\ fetchStatus' = "error") =>
            /\ data' = data
            /\ applied' = applied
            /\ useMockData' = useMockData
            /\ currentParams' = currentParams
            /\ Selection' = Selection
            /\ error' = ErrorMessage
            /\ ~loading' /\ ~isRefreshing'
      ]_vars

\* the mount fetch fell back to the sample; the next fetch ended in the catch
\* branch and the five sample records and the flag are still there
C28_Witness ==
    /\ fetchStatus = "error"
    /\ error = ErrorMessage
    /\ applied.id = 1 /\ settled.id = 2
    /\ useMockData
    /\ Symbols(data) = <<"ETP", "XMX", "META", "BTC", "ETH">>
    /\ currentParams = settled.params

\* ------------------------------------------------------------------------
\* Progress: the awaited request settles (the browser's fetch resolves or
\* rejects) and React runs a scheduled effect
\* ------------------------------------------------------------------------
\* one proxy outcome of each kind: no answer, a record list, a body without
\* a record list, an unparseable body, a failure status
TerminationOutcomes ==
    {NetworkFailure,
     HttpResponse(200, ListBody(<<LiveFull, LiveSparse>>)),
     HttpResponse(200, JsonBody(EmptyObject)),
     HttpResponse(200, MalformedBody),
     HttpResponse(500, JsonBody([error |-> GenericMessage]))}

ResolveSettledAny ==
    \E call \in inflight : \E resp \in TerminationOutcomes : Resolve(call, resp)

NextLive ==
    ParamEffect \/ MountEffect \/ SelectSortAny \/ SelectLimitAny \/ ResolveSettledAny

SpecLive ==
    Init /\ [][NextLive]_vars /\ WF_vars(ResolveSettledAny) /\ WF_vars(ParamEffect)

\* C30: every fetch that is initiated ends: from fetchStatus 'fetching' the
\* dashboard reaches a state with no call in flight, loading and
\* isRefreshing false and fetchStatus 'complete' or 'error', whatever the
\* proxy call gives.
C30_FetchTerminates ==
    (fetchStatus = "fetching") ~>
        (/\ inflight = {}
         /\ ~loading /\ ~isRefreshing
         /\ fetchStatus \in {"complete", "error"})

\* a call answered with status 200 and an unparseable body has ended
C30_Witness ==
    /\ settled.id = fetchCount /\ fetchCount > 0
    /\ settled.response.net = "responded"
    /\ settled.response.status = 200
    /\ ~settled.response.body.json
    /\ inflight = {}
    /\ ~loading
    /\ fetchStatus = "complete"

====
